---- MODULE Spec2Model ----
(***************************************************************************)
(* Model of scripts/fetch.js: getCategorizeGithubEmojiIds and the helpers  *)
(* it calls.                                                               *)
(*                                                                         *)
(* Strings are sequences of code points (integers): "@" is <<64>>, the     *)
(* emoji U+263A is <<9786>>.  A JavaScript object is the sequence of its   *)
(* own [k, v] entries in enumeration order (OwnPropertyKeys order: array   *)
(* index keys ascending, then the other keys in insertion order).  The     *)
(* objects of the code are plain objects: reading a key that is not an own *)
(* key but the name of a property of Object.prototype gives the inherited  *)
(* value, and the in operator finds it (ObjectPrototypeNames, ObjIn).  A   *)
(* title-cased title is never such a name, each of them has a lower-case   *)
(* letter that toTitleCase would turn to upper case.                       *)
(***************************************************************************)
EXTENDS Integers, Sequences, FiniteSets, TLC

(***************************************************************************)
(* String primitives                                                       *)
(***************************************************************************)

\* String.prototype.startsWith
StartsWith(s, p) ==
  /\ Len(p) <= Len(s)
  /\ SubSeq(s, 1, Len(p)) = p

\* position of the first occurrence of p in s at or after from, 0 if none
RECURSIVE IndexOfFrom(_, _, _)
IndexOfFrom(s, p, from) ==
  IF from + Len(p) - 1 > Len(s) THEN 0
  ELSE IF SubSeq(s, from, from + Len(p) - 1) = p THEN from
  ELSE IndexOfFrom(s, p, from + 1)

\* String.prototype.includes
Includes(s, p) == IndexOfFrom(s, p, 1) # 0

\* String.prototype.split with a non-empty separator
RECURSIVE Split(_, _)
Split(s, sep) ==
  LET i == IndexOfFrom(s, sep, 1) IN
  IF i = 0 THEN << s >>
  ELSE << SubSeq(s, 1, i - 1) >> \o Split(SubSeq(s, i + Len(sep), Len(s)), sep)

\* value of a hexadecimal digit, -1 for any other character
HexDigit(c) ==
  IF c >= 48 /\ c <= 57 THEN c - 48
  ELSE IF c >= 97 /\ c <= 102 THEN c - 87
  ELSE IF c >= 65 /\ c <= 70 THEN c - 55
  ELSE -1

\* white space and line terminators, the same characters for \s of a
\* regular expression and for the blanks parseInt skips: tab, line feed,
\* vertical tab, form feed, carriage return, space, U+00A0, U+1680,
\* U+2000..U+200A, U+2028, U+2029, U+202F, U+205F, U+3000, U+FEFF
IsSpace(c) ==
  \/ c \in {9, 10, 11, 12, 13, 32, 160, 5760, 8232, 8233, 8239, 8287, 12288, 65279}
  \/ (c >= 8192 /\ c <= 8202)

\* the value of the longest run of hexadecimal digits from position i on.
\* A number of 2^27 or more stays what it is with every further digit: it
\* is far beyond 10FFFF, where String.fromCodePoint only asks whether the
\* number is in range
RECURSIVE ParseHexFrom(_, _, _)
ParseHexFrom(s, i, acc) ==
  IF i > Len(s) \/ HexDigit(s[i]) < 0 THEN acc
  ELSE ParseHexFrom(s, i + 1,
                    IF acc >= 134217728 THEN acc ELSE acc * 16 + HexDigit(s[i]))

\* the first position at or after i that holds no white space
RECURSIVE SkipSpaces(_, _)
SkipSpaces(s, i) ==
  IF i <= Len(s) /\ IsSpace(s[i]) THEN SkipSpaces(s, i + 1) ELSE i

\* Number.parseInt(s, 16): leading white space is skipped, then a sign is
\* taken, then a 0x or 0X prefix is skipped; the value is that of the
\* longest run of hexadecimal digits that follows, negated after "-"; NaN,
\* written -1, when that run is empty
ParseInt16(s) ==
  LET start == SkipSpaces(s, 1)
      signed == start <= Len(s) /\ s[start] \in {43, 45}
      digits == IF signed THEN start + 1 ELSE start
      first == IF digits + 1 <= Len(s) /\ s[digits] = 48 /\ s[digits + 1] \in {120, 88}
               THEN digits + 2 ELSE digits
  IN  IF first > Len(s) \/ HexDigit(s[first]) < 0 THEN -1
      ELSE IF signed /\ s[start] = 45 THEN 0 - ParseHexFrom(s, first, 0)
      ELSE ParseHexFrom(s, first, 0)

\* String.fromCodePoint throws a RangeError outside 0..0x10FFFF (and on NaN)
ValidCodePoint(n) == n >= 0 /\ n <= 1114111

\* decode a list of hexadecimal code point texts:
\* texts.map(t => String.fromCodePoint(parseInt(t, 16))).join("")
DecodeOk(texts) == \A i \in 1..Len(texts) : ValidCodePoint(ParseInt16(texts[i]))

\* A string is held as its code points.  In the UTF-16 string of the code a
\* high surrogate (D800..DBFF) directly followed by a low surrogate
\* (DC00..DFFF) is the one code point they encode, wherever the two halves
\* came from
RECURSIVE JoinSurrogates(_)
JoinSurrogates(s) ==
  IF Len(s) < 2 THEN s
  ELSE IF s[1] >= 55296 /\ s[1] <= 56319 /\ s[2] >= 56320 /\ s[2] <= 57343
       THEN << 65536 + (s[1] - 55296) * 1024 + (s[2] - 56320) >>
              \o JoinSurrogates(SubSeq(s, 3, Len(s)))
       ELSE << s[1] >> \o JoinSurrogates(Tail(s))

DecodeCodePoints(texts) ==
  JoinSurrogates([i \in 1..Len(texts) |-> ParseInt16(texts[i])])

\* getLast
getLast(array) == array[Len(array)]

(***************************************************************************)
(* JavaScript objects as ordered entry lists                               *)
(***************************************************************************)

\* a < b, for two canonical decimal numerals: the shorter is the smaller,
\* of two of one length the one with the smaller digit where they first
\* differ
NumeralLess(a, b) ==
  \/ Len(a) < Len(b)
  \/ /\ Len(a) = Len(b)
     /\ \E i \in 1..Len(a) :
          a[i] < b[i] /\ \A j \in 1..(i - 1) : a[j] = b[j]

\* "4294967294", the largest array index, 2^32 - 2
MaxArrayIndex == << 52, 50, 57, 52, 57, 54, 55, 50, 57, 52 >>

\* a property key that is an array index: a canonical decimal numeral (no
\* leading zero but "0" itself) up to 2^32 - 2.  Such keys are enumerated
\* first, in ascending order.
IsArrayIndex(k) ==
  /\ Len(k) >= 1
  /\ \A i \in 1..Len(k) : k[i] >= 48 /\ k[i] <= 57
  /\ (Len(k) > 1 => k[1] # 48)
  /\ (k = MaxArrayIndex \/ NumeralLess(k, MaxArrayIndex))

\* the key "undefined": what an undefined value turns into as a property key
UndefinedKey == << 117, 110, 100, 101, 102, 105, 110, 101, 100 >>

ObjKeys(o) == [i \in 1..Len(o) |-> o[i].k]

\* Object.prototype.hasOwnProperty.call(o, key): key is an own key of o
ObjHas(o, key) == \E i \in 1..Len(o) : o[i].k = key

\* the names of the properties of Object.prototype: constructor, __defineGetter__, __defineSetter__, hasOwnProperty,
\* __lookupGetter__, __lookupSetter__, isPrototypeOf, propertyIsEnumerable,
\* toString, valueOf, __proto__, toLocaleString
ObjectPrototypeNames ==
  { << 99, 111, 110, 115, 116, 114, 117, 99, 116, 111, 114 >>,
    << 95, 95, 100, 101, 102, 105, 110, 101, 71, 101, 116, 116, 101, 114, 95, 95 >>,
    << 95, 95, 100, 101, 102, 105, 110, 101, 83, 101, 116, 116, 101, 114, 95, 95 >>,
    << 104, 97, 115, 79, 119, 110, 80, 114, 111, 112, 101, 114, 116, 121 >>,
    << 95, 95, 108, 111, 111, 107, 117, 112, 71, 101, 116, 116, 101, 114, 95, 95 >>,
    << 95, 95, 108, 111, 111, 107, 117, 112, 83, 101, 116, 116, 101, 114, 95, 95 >>,
    << 105, 115, 80, 114, 111, 116, 111, 116, 121, 112, 101, 79, 102 >>,
    << 112, 114, 111, 112, 101, 114, 116, 121, 73, 115, 69, 110, 117, 109, 101, 114, 97, 98, 108, 101 >>,
    << 116, 111, 83, 116, 114, 105, 110, 103 >>,
    << 118, 97, 108, 117, 101, 79, 102 >>,
    << 95, 95, 112, 114, 111, 116, 111, 95, 95 >>,
    << 116, 111, 76, 111, 99, 97, 108, 101, 83, 116, 114, 105, 110, 103 >> }

\* key in o, for a plain object o: an own key or a name inherited from
\* Object.prototype
ObjIn(o, key) == ObjHas(o, key) \/ key \in ObjectPrototypeNames

\* o[key] is not undefined (every inherited value is a function or an object)
ObjDefined(o, key) == ObjIn(o, key)

\* Object.prototype[key]: a function or an object, neither an array nor
\* iterable; held as a list of one element that is no identifier (code
\* point 0 before the name)
InheritedValue(key) == << << 0 >> \o key >>

ObjIndex(o, key) == CHOOSE i \in 1..Len(o) : o[i].k = key

\* o[key], for a key that is present
ObjGet(o, key) == o[ObjIndex(o, key)].v

\* enumeration position a new key takes
InsertAt(o, key) ==
  IF IsArrayIndex(key)
  THEN 1 + Cardinality({i \in 1..Len(o) :
              /\ IsArrayIndex(o[i].k)
              /\ NumeralLess(o[i].k, key)})
  ELSE Len(o) + 1

\* o[key] = val
ObjSet(o, key, val) ==
  IF ObjHas(o, key)
  THEN [o EXCEPT ![ObjIndex(o, key)] = [k |-> key, v |-> val]]
  ELSE LET p == InsertAt(o, key) IN
       SubSeq(o, 1, p - 1) \o << [k |-> key, v |-> val] >> \o SubSeq(o, p, Len(o))

\* delete o[key]
ObjDelete(o, key) == SelectSeq(o, LAMBDA e : e.k # key)

\* Object.fromEntries / JSON.parse of an object: properties defined in order
RECURSIVE ObjFromEntries(_)
ObjFromEntries(entries) ==
  IF entries = << >> THEN << >>
  ELSE LET e == entries[Len(entries)] IN
       ObjSet(ObjFromEntries(SubSeq(entries, 1, Len(entries) - 1)), e.k, e.v)

(***************************************************************************)
(* getGithubEmojiIdMap: image locator -> emoji literal or [uri]            *)
(***************************************************************************)

\* getLast(url.split("/")).split(".png")[0]
FileStem(url) ==
  Split(getLast(Split(url, << 47 >>)), << 46, 112, 110, 103 >>)[1]

\* url.includes("/unicode/")
IsUnicodeUrl(url) == Includes(url, << 47, 117, 110, 105, 99, 111, 100, 101, 47 >>)

\* the hexadecimal code point texts of a unicode asset: stem.split("-")
UrlCodePointTexts(url) == Split(FileStem(url), << 45 >>)

\* the value an identifier maps to: the emoji literal (a string), or a
\* one-element array holding the file stem of a GitHub-only image
DecodeUrl(url) ==
  IF IsUnicodeUrl(url)
  THEN [isArray |-> FALSE, s |-> DecodeCodePoints(UrlCodePointTexts(url))]
  ELSE [isArray |-> TRUE, s |-> FileStem(url)]

DecodeUrlOk(url) == IsUnicodeUrl(url) => DecodeOk(UrlCodePointTexts(url))

\* Object.fromEntries(Object.entries(json).map(([id, url]) => [id, decode(url)]))
getGithubEmojiIdMap(json) ==
  ObjFromEntries([i \in 1..Len(json) |-> [k |-> json[i].k, v |-> DecodeUrl(json[i].v)]])

(***************************************************************************)
(* toTitleCase                                                             *)
(***************************************************************************)

IsLetter(c) == (c >= 97 /\ c <= 122) \/ (c >= 65 /\ c <= 90)

\* .replace(/-/g, " ")
HyphensToSpaces(s) == [i \in 1..Len(s) |-> IF s[i] = 45 THEN 32 ELSE s[i]]

\* .replace(/\s+/g, " ")
RECURSIVE CollapseSpaces(_)
CollapseSpaces(s) ==
  IF s = << >> THEN << >>
  ELSE IF IsSpace(s[1])
       THEN IF Len(s) > 1 /\ IsSpace(s[2])
            THEN CollapseSpaces(Tail(s))
            ELSE << 32 >> \o CollapseSpaces(Tail(s))
       ELSE << s[1] >> \o CollapseSpaces(Tail(s))

\* .replace(/[a-zA-Z]+/g, word => word[0].toUpperCase() + word.slice(1))
CapitalizeWords(s) ==
  [i \in 1..Len(s) |->
     IF s[i] >= 97 /\ s[i] <= 122 /\ (i = 1 \/ ~IsLetter(s[i - 1]))
     THEN s[i] - 32 ELSE s[i]]

toTitleCase(str) == CapitalizeWords(CollapseSpaces(HyphensToSpaces(str)))

(***************************************************************************)
(* getUnicodeEmojiCategoryIteratorFromText                                 *)
(***************************************************************************)

\* text.split("\n")
TextLines(text) == Split(text, << 10 >>)

\* the single marker is tested before the double marker
LineType_SingleFirst(line) ==
  IF StartsWith(line, << 64 >>) THEN "subcategory"
  ELSE IF StartsWith(line, << 64, 64 >>) THEN "category"
  ELSE IF Len(line) # 0 THEN "emoji"
  ELSE "none"

\* the record type a line yields; "none" for a line that yields nothing
LineType(line) ==
  IF StartsWith(line, << 64, 64 >>) THEN "category"
  ELSE IF StartsWith(line, << 64 >>) THEN "subcategory"
  ELSE IF Len(line) # 0 THEN "emoji"
  ELSE "none"

\* line.split("\t")[0].split(" ")
LineCodePointTexts(line) == Split(Split(line, << 9 >>)[1], << 32 >>)

\* the value of the record a line yields
LineValue(line) ==
  IF LineType(line) = "category" THEN SubSeq(line, 3, Len(line))
  ELSE IF LineType(line) = "subcategory" THEN SubSeq(line, 2, Len(line))
  ELSE DecodeCodePoints(LineCodePointTexts(line))

\* whether producing the record of a line throws (String.fromCodePoint)
LineThrows(line) == LineType(line) = "emoji" /\ ~DecodeOk(LineCodePointTexts(line))

\* index of the first line at or after pos that yields a record,
\* Len(lines) + 1 when the generator is exhausted
RECURSIVE NextRecordAt(_, _)
NextRecordAt(lines, pos) ==
  IF pos > Len(lines) THEN Len(lines) + 1
  ELSE IF LineType(lines[pos]) # "none" THEN pos
  ELSE NextRecordAt(lines, pos + 1)

(***************************************************************************)
(* Pieces of getCategorizeGithubEmojiIds                                   *)
(***************************************************************************)

\* a replace without the g flag: only the first match is removed
StripSelectors_FirstOnly(value) ==
  LET hits == { i \in 1..Len(value) :
                  (value[i] >= 65024 /\ value[i] <= 65039) \/ value[i] = 8205 }
  IN  IF hits = {} THEN value
      ELSE LET i == CHOOSE h \in hits : \A j \in hits : h <= j
           IN  JoinSurrogates(SubSeq(value, 1, i - 1) \o SubSeq(value, i + 1, Len(value)))

\* value.replace(/[\ufe00-\ufe0f\u200d]/g, ""): U+FE00..U+FE0F and U+200D
\* removed; two surrogate halves the removal brings together are one code
\* point of the key
StripSelectors(value) ==
  JoinSurrogates(SelectSeq(value, LAMBDA c : ~((c >= 65024 /\ c <= 65039) \/ c = 8205)))

\* variant: every value is taken for an emoji literal
IsGithubSpecific_Never(val) == FALSE

\* Array.isArray(emojiLiteral): the identifier has a GitHub-only image
IsGithubSpecific(val) == val.isArray

\* variant: the list is replaced instead of extended
PushId_Overwrite(map, key, emojiId) == ObjSet(map, key, << emojiId >>)

\* if (!map[key]) map[key] = []; map[key].push(emojiId), where map[key] is
\* undefined or an array of the map
PushId(map, key, emojiId) ==
  ObjSet(map, key, (IF ObjHas(map, key) THEN ObjGet(map, key) ELSE << >>) \o << emojiId >>)

\* map[key].push throws a TypeError: map[key] is an inherited value, so no
\* array was assigned, and an inherited value has no push
PushIdThrows(map, key) == ~ObjHas(map, key) /\ ObjDefined(map, key)

\* one iteration of the loop over Object.entries(githubEmojiIdMap):
\* st = [ids, literals, uris] are the three maps, throws whether an earlier
\* iteration threw
PartitionEntry(st, emojiId, emojiLiteral) ==
  IF st.throws THEN st
  ELSE IF IsGithubSpecific(emojiLiteral)
  THEN IF PushIdThrows(st.uris, emojiLiteral.s)
       THEN [st EXCEPT !.throws = TRUE]
       ELSE [st EXCEPT !.uris = PushId(st.uris, emojiLiteral.s, emojiId),
                       !.ids = ObjDelete(st.ids, emojiId)]
  ELSE IF PushIdThrows(st.literals, emojiLiteral.s)
       THEN [st EXCEPT !.throws = TRUE]
       ELSE [st EXCEPT !.literals = PushId(st.literals, emojiLiteral.s, emojiId)]

\* the whole loop, over the entries as they were when the loop started
RECURSIVE PartitionLoop(_, _, _)
PartitionLoop(entries, i, st) ==
  IF i > Len(entries) THEN st
  ELSE PartitionLoop(entries, i + 1, PartitionEntry(st, entries[i].k, entries[i].v))

\* variant: the stack is not emptied before the category title is pushed
CategoryStackOnCategory_NoReset(stack, title) == stack \o << title >>

\* categoryStack after a category record
CategoryStackOnCategory(stack, title) == << title >>

\* the previous subcategory is not popped
CategoryStackOnSubcategory_NoPop(stack, title) == stack \o << title >>

\* categoryStack after a subcategory record
CategoryStackOnSubcategory(stack, title) ==
  (IF Len(stack) > 1 THEN SubSeq(stack, 1, Len(stack) - 1) ELSE stack) \o << title >>

\* categorizedEmojiIds[title] = {}
SetCategory(categorized, title) == ObjSet(categorized, title, << >>)

\* variant: a missing category is created instead of throwing
SetSubcategory_Create(categorized, category, title) ==
  [throws |-> FALSE,
   categorized |-> ObjSet(categorized, category,
                          ObjSet(IF ObjHas(categorized, category)
                                 THEN ObjGet(categorized, category) ELSE << >>,
                                 title, << >>))]

\* categorizedEmojiIds[category][title] = []: a TypeError is thrown when
\* categorizedEmojiIds[category] is undefined
SetSubcategory(categorized, category, title) ==
  IF ObjHas(categorized, category)
  THEN [throws |-> FALSE,
        categorized |-> ObjSet(categorized, category,
                               ObjSet(ObjGet(categorized, category), title, << >>))]
  ELSE [throws |-> TRUE, categorized |-> categorized]

\* const [category, subcategory] = categoryStack, as property keys
StackCategory(stack) == IF Len(stack) >= 1 THEN stack[1] ELSE UndefinedKey

StackSubcategory(stack) == IF Len(stack) >= 2 THEN stack[2] ELSE UndefinedKey

\* key in emojiLiteralToGithubEmojiIdsMap
KeyMatches(literals, key) == ObjIn(literals, key)

\* emojiLiteralToGithubEmojiIdsMap[key], for a key that is in the map
IndexValue(literals, key) ==
  IF ObjHas(literals, key) THEN ObjGet(literals, key) ELSE InheritedValue(key)

\* for (const githubEmojiId of githubEmojiIds) throws a TypeError: the
\* value is not an array of the index but an inherited value
GroupNotIterable(literals, key) == ~ObjHas(literals, key)

\* categorizedEmojiIds[category][subcategory].push(...) throws a TypeError
\* when either lookup is undefined; the keys are title-cased titles or
\* "undefined", none of them an inherited name
PushGroupThrows(categorized, category, subcategory) ==
  \/ ~ObjHas(categorized, category)
  \/ ~ObjHas(ObjGet(categorized, category), subcategory)

PushGroup(categorized, category, subcategory, githubEmojiIds) ==
  LET subs == ObjGet(categorized, category) IN
  ObjSet(categorized, category,
         ObjSet(subs, subcategory, ObjGet(subs, subcategory) \o << githubEmojiIds >>))

\* for (const githubEmojiId of githubEmojiIds) delete githubEmojiIdMap[githubEmojiId]
RECURSIVE DeleteIds(_, _)
DeleteIds(ids, githubEmojiIds) ==
  IF githubEmojiIds = << >> THEN ids
  ELSE DeleteIds(ObjDelete(ids, Head(githubEmojiIds)), Tail(githubEmojiIds))

\* variant: the coverage check never fires
HasUncategorized_Never(ids) == FALSE

\* Object.keys(githubEmojiIdMap).length
HasUncategorized(ids) == Len(ObjKeys(ids)) # 0

\* variant: empty subcategory lists are kept
PruneSubcategories_Keep(subs) == subs

\* the subcategories of one category with the empty lists deleted
PruneSubcategories(subs) == SelectSeq(subs, LAMBDA e : Len(e.v) # 0)

\* the pruning loop over Object.keys(categorizedEmojiIds)
PruneCategories(categorized) ==
  SelectSeq([i \in 1..Len(categorized) |->
               [k |-> categorized[i].k, v |-> PruneSubcategories(categorized[i].v)]],
            LAMBDA e : Len(ObjKeys(e.v)) # 0)

\* "GitHub Custom Emoji"
GithubCustomEmoji ==
  << 71, 105, 116, 72, 117, 98, 32, 67, 117, 115, 116, 111, 109, 32, 69, 109, 111,
     106, 105 >>

\* Object.entries(githubSpecificEmojiUriToGithubEmojiIdsMap).map(([, v]) => v)
UriGroups(uris) == [i \in 1..Len(uris) |-> uris[i].v]

\* the synthetic category, added when there is a GitHub-only image
AddGithubCustom(categorized, uris) ==
  IF Len(ObjKeys(uris)) # 0
  THEN ObjSet(categorized, GithubCustomEmoji, << [k |-> << >>, v |-> UriGroups(uris)] >>)
  ELSE categorized

(***************************************************************************)
(* fetch                                                                   *)
(***************************************************************************)

\* the (error, response) pairs the request callback is called with:
\* error "" is no error, statusCode 0 is no response
Responses ==
  { [error |-> "", statusCode |-> 200],
    [error |-> "", statusCode |-> 404],
    [error |-> "ECONNRESET", statusCode |-> 0] }

\* variant: the status code is not looked at
FetchResolves_AnyStatus(error, statusCode) == error = ""

\* !error && response.statusCode === 200
FetchResolves(error, statusCode) == error = "" /\ statusCode = 200

\* the rejection reason: the error, else the status code message
FetchReason(error, statusCode) ==
  IF error # ""
  THEN [name |-> error, message |-> "", statusCode |-> 0]
  ELSE [name |-> "", message |-> "Unexpected response status code", statusCode |-> statusCode]

NoReason == [name |-> "", message |-> "", statusCode |-> 0]

TypeError == [name |-> "TypeError", message |-> "", statusCode |-> 0]

RangeError == [name |-> "RangeError", message |-> "", statusCode |-> 0]

UncategorizedError ==
  [name |-> "Error", message |-> "Uncategorized emoji(s) found.", statusCode |-> 0]

(***************************************************************************)
(* Inputs                                                                  *)
(***************************************************************************)

\* most identifiers of an identifier source
MaxIds == 2

\* most lines of a reference text
MaxLines == 4

\* identifiers, by position in the identifier source: "a", "1", "b", "c"
IdNames == << << 97 >>, << 49 >>, << 98 >>, << 99 >> >>

\* "x/unicode/263a.png", "x/unicode/263a-fe0f.png", "x/e/oc.png"
Urls ==
  { << 120, 47, 117, 110, 105, 99, 111, 100, 101, 47, 50, 54, 51, 97, 46, 112, 110, 103 >>,
    << 120, 47, 117, 110, 105, 99, 111, 100, 101, 47, 50, 54, 51, 97, 45, 102, 101, 48,
       102, 46, 112, 110, 103 >>,
    << 120, 47, 101, 47, 111, 99, 46, 112, 110, 103 >> }

\* "@@a-b", "@@c", "@s", "263A", "263A FE0F<tab>x", ""
LineSet ==
  { << 64, 64, 97, 45, 98 >>,
    << 64, 64, 99 >>,
    << 64, 115 >>,
    << 50, 54, 51, 65 >>,
    << 50, 54, 51, 65, 32, 70, 69, 48, 70, 9, 120 >>,
    << >> }

SeqsUpTo(S, n) == UNION { [1..m -> S] : m \in 0..n }

\* the parsed JSON documents: identifier -> image locator, in document order
IdSources ==
  { [i \in 1..Len(urls) |-> [k |-> IdNames[i], v |-> urls[i]]] : urls \in SeqsUpTo(Urls, MaxIds) }

\* lines.join("\n")
RECURSIVE JoinLines(_)
JoinLines(ls) ==
  IF ls = << >> THEN << >>
  ELSE IF Len(ls) = 1 THEN ls[1]
  ELSE ls[1] \o << 10 >> \o JoinLines(Tail(ls))

Texts == { JoinLines(ls) : ls \in SeqsUpTo(LineSet, MaxLines) }

(***************************************************************************)
(* State                                                                   *)
(***************************************************************************)

VARIABLES
  idsBody,      \* the body fetch resolved with for api.github.com/emojis, parsed
  textBody,     \* the body fetch resolved with for full-emoji-list.txt
  fetch,        \* per resource: the request and the promise fetch() returned
  pc,           \* where getCategorizeGithubEmojiIds is
  githubEmojiIdMap,
  emojiLiteralToGithubEmojiIdsMap,
  githubSpecificEmojiUriToGithubEmojiIdsMap,
  categorizedEmojiIds,
  categoryStack,
  lines,        \* the generator's lines
  pos,          \* the generator's next line
  outcome       \* the promise getCategorizeGithubEmojiIds returned

vars ==
  << idsBody, textBody, fetch, pc, githubEmojiIdMap, emojiLiteralToGithubEmojiIdsMap,
     githubSpecificEmojiUriToGithubEmojiIdsMap, categorizedEmojiIds, categoryStack,
     lines, pos, outcome >>

inputs == << idsBody, textBody >>

maps ==
  << githubEmojiIdMap, emojiLiteralToGithubEmojiIdsMap,
     githubSpecificEmojiUriToGithubEmojiIdsMap >>

walk == << categorizedEmojiIds, categoryStack, lines, pos >>

Resources == {"ids", "text"}

IdleFetch == [requests |-> 0, state |-> "idle", settles |-> 0, response |-> [error |-> "", statusCode |-> 0], reason |-> NoReason]

Pending == [state |-> "pending", value |-> << >>, reason |-> NoReason]

Init ==
  /\ idsBody = << >>
  /\ textBody = << >>
  /\ fetch = [f \in Resources |-> IdleFetch]
  /\ pc = "start"
  /\ githubEmojiIdMap = << >>
  /\ emojiLiteralToGithubEmojiIdsMap = << >>
  /\ githubSpecificEmojiUriToGithubEmojiIdsMap = << >>
  /\ categorizedEmojiIds = << >>
  /\ categoryStack = << >>
  /\ lines = << >>
  /\ pos = 1
  /\ outcome = Pending

(***************************************************************************)
(* Actions                                                                 *)
(***************************************************************************)

Rejected(reason) == [state |-> "rejected", value |-> << >>, reason |-> reason]

Fulfilled(value) == [state |-> "fulfilled", value |-> value, reason |-> NoReason]

\* fetch(url): request.get is called, the promise is pending
IssueFetch(f) ==
  [fetch EXCEPT ![f].requests = @ + 1, ![f].state = "pending"]

\* the promise of fetch settled by the request callback
SettleFetch(f, error, statusCode) ==
  [fetch EXCEPT
     ![f].state = IF FetchResolves(error, statusCode) THEN "resolved" ELSE "rejected",
     ![f].settles = @ + 1,
     ![f].response = [error |-> error, statusCode |-> statusCode],
     ![f].reason = IF FetchResolves(error, statusCode) THEN NoReason
                   ELSE FetchReason(error, statusCode)]

\* getCategorizeGithubEmojiIds() is called: getGithubEmojiIdMap requests the
\* identifier source and awaits it
Call ==
  /\ pc = "start"
  /\ fetch' = IssueFetch("ids")
  /\ pc' = "awaitIds"
  /\ UNCHANGED << inputs, maps, walk, outcome >>

\* the request callback of fetch: (error, response, html)
\* sources, texts: the bodies the two resources may be served with
CallbackFrom(f, sources, texts) ==
  /\ fetch[f].state = "pending"
  /\ \E r \in Responses :
       /\ fetch' = SettleFetch(f, r.error, r.statusCode)
       /\ IF FetchResolves(r.error, r.statusCode)
          THEN IF f = "ids"
               THEN idsBody' \in sources /\ UNCHANGED textBody
               ELSE textBody' \in texts /\ UNCHANGED idsBody
          ELSE UNCHANGED inputs
  /\ UNCHANGED << pc, maps, walk, outcome >>

Callback(f) == CallbackFrom(f, IdSources, Texts)

\* an awaited fetch rejected: the rejection passes through every await
FetchFailed(f) ==
  /\ pc = (IF f = "ids" THEN "awaitIds" ELSE "awaitText")
  /\ fetch[f].state = "rejected"
  /\ outcome' = Rejected(fetch[f].reason)
  /\ pc' = "done"
  /\ UNCHANGED << inputs, fetch, maps, walk >>

\* getGithubEmojiIdMap resumes with the identifier source
ResumeIds ==
  /\ pc = "awaitIds"
  /\ fetch["ids"].state = "resolved"
  /\ IF \A i \in 1..Len(idsBody) : DecodeUrlOk(idsBody[i].v)
     THEN /\ githubEmojiIdMap' = getGithubEmojiIdMap(idsBody)
          /\ pc' = "partition"
          /\ UNCHANGED outcome
     ELSE /\ outcome' = Rejected(RangeError)
          /\ pc' = "done"
          /\ UNCHANGED githubEmojiIdMap
  /\ UNCHANGED << inputs, fetch, emojiLiteralToGithubEmojiIdsMap,
                  githubSpecificEmojiUriToGithubEmojiIdsMap, walk >>

\* the loop that builds the two partitions
BuildPartitions ==
  /\ pc = "partition"
  /\ LET st == PartitionLoop(githubEmojiIdMap, 1,
                             [ids |-> githubEmojiIdMap, literals |-> << >>, uris |-> << >>,
                              throws |-> FALSE])
     IN /\ githubEmojiIdMap' = st.ids
        /\ emojiLiteralToGithubEmojiIdsMap' = st.literals
        /\ githubSpecificEmojiUriToGithubEmojiIdsMap' = st.uris
        /\ IF st.throws
           THEN outcome' = Rejected(TypeError) /\ pc' = "done"
           ELSE pc' = "callIterator" /\ UNCHANGED outcome
  /\ UNCHANGED << inputs, fetch, walk >>

\* getUnicodeEmojiCategoryIterator requests the reference text and awaits it
CallIterator ==
  /\ pc = "callIterator"
  /\ fetch' = IssueFetch("text")
  /\ pc' = "awaitText"
  /\ UNCHANGED << inputs, maps, walk, outcome >>

\* the reference text is not awaited: the walk starts on what is there
ResumeText_NoAwait ==
  /\ pc = "awaitText"
  /\ fetch["text"].state \in {"pending", "resolved"}
  /\ lines' = TextLines(textBody)
  /\ pos' = 1
  /\ pc' = "walk"
  /\ UNCHANGED << inputs, fetch, maps, categorizedEmojiIds, categoryStack, outcome >>

\* the generator over the reference text is created, the walk starts
ResumeText ==
  /\ pc = "awaitText"
  /\ fetch["text"].state = "resolved"
  /\ lines' = TextLines(textBody)
  /\ pos' = 1
  /\ pc' = "walk"
  /\ UNCHANGED << inputs, fetch, maps, categorizedEmojiIds, categoryStack, outcome >>

\* the line of the next record, past the end when there is none
NextAt == NextRecordAt(lines, pos)

NextIs(type) ==
  /\ pc = "walk"
  /\ NextAt <= Len(lines)
  /\ LineType(lines[NextAt]) = type

\* case "category"
WalkCategory ==
  /\ NextIs("category")
  /\ LET title == toTitleCase(LineValue(lines[NextAt])) IN
     /\ categoryStack' = CategoryStackOnCategory(categoryStack, title)
     /\ categorizedEmojiIds' = SetCategory(categorizedEmojiIds, title)
  /\ pos' = NextAt + 1
  /\ UNCHANGED << inputs, fetch, pc, maps, lines, outcome >>

\* case "subcategory"
WalkSubcategory ==
  /\ NextIs("subcategory")
  /\ LET title == toTitleCase(LineValue(lines[NextAt]))
         stack == CategoryStackOnSubcategory(categoryStack, title)
     IN /\ categoryStack' = stack
        /\ LET set == SetSubcategory(categorizedEmojiIds, stack[1], title) IN
           IF set.throws
           THEN /\ outcome' = Rejected(TypeError)
                /\ pc' = "done"
                /\ UNCHANGED categorizedEmojiIds
           ELSE /\ categorizedEmojiIds' = set.categorized
                /\ UNCHANGED << pc, outcome >>
  /\ pos' = NextAt + 1
  /\ UNCHANGED << inputs, fetch, maps, lines >>

\* the bucket of the context is looked up before the key is tested
WalkEmoji_ContextFirst ==
  /\ NextIs("emoji")
  /\ pos' = NextAt + 1
  /\ IF LineThrows(lines[NextAt])
     THEN /\ outcome' = Rejected(RangeError)
          /\ pc' = "done"
          /\ UNCHANGED << githubEmojiIdMap, categorizedEmojiIds >>
     ELSE LET key == StripSelectors(LineValue(lines[NextAt]))
              category == StackCategory(categoryStack)
              subcategory == StackSubcategory(categoryStack)
          IN  IF PushGroupThrows(categorizedEmojiIds, category, subcategory)
              THEN /\ outcome' = Rejected(TypeError)
                   /\ pc' = "done"
                   /\ UNCHANGED << githubEmojiIdMap, categorizedEmojiIds >>
              ELSE IF KeyMatches(emojiLiteralToGithubEmojiIdsMap, key)
                      /\ GroupNotIterable(emojiLiteralToGithubEmojiIdsMap, key)
              THEN /\ categorizedEmojiIds' =
                        PushGroup(categorizedEmojiIds, category, subcategory,
                                  IndexValue(emojiLiteralToGithubEmojiIdsMap, key))
                   /\ outcome' = Rejected(TypeError)
                   /\ pc' = "done"
                   /\ UNCHANGED githubEmojiIdMap
              ELSE IF KeyMatches(emojiLiteralToGithubEmojiIdsMap, key)
              THEN LET githubEmojiIds == ObjGet(emojiLiteralToGithubEmojiIdsMap, key) IN
                   /\ categorizedEmojiIds' =
                        PushGroup(categorizedEmojiIds, category, subcategory, githubEmojiIds)
                   /\ githubEmojiIdMap' = DeleteIds(githubEmojiIdMap, githubEmojiIds)
                   /\ UNCHANGED << pc, outcome >>
              ELSE UNCHANGED << githubEmojiIdMap, categorizedEmojiIds, pc, outcome >>
  /\ UNCHANGED << inputs, fetch, emojiLiteralToGithubEmojiIdsMap,
                  githubSpecificEmojiUriToGithubEmojiIdsMap, categoryStack, lines >>

\* case "emoji"
WalkEmoji ==
  /\ NextIs("emoji")
  /\ pos' = NextAt + 1
  /\ IF LineThrows(lines[NextAt])
     THEN /\ outcome' = Rejected(RangeError)
          /\ pc' = "done"
          /\ UNCHANGED << githubEmojiIdMap, categorizedEmojiIds >>
     ELSE LET key == StripSelectors(LineValue(lines[NextAt])) IN
          IF KeyMatches(emojiLiteralToGithubEmojiIdsMap, key)
          THEN LET githubEmojiIds == IndexValue(emojiLiteralToGithubEmojiIdsMap, key)
                   category == StackCategory(categoryStack)
                   subcategory == StackSubcategory(categoryStack)
               IN IF PushGroupThrows(categorizedEmojiIds, category, subcategory)
                  THEN /\ outcome' = Rejected(TypeError)
                       /\ pc' = "done"
                       /\ UNCHANGED << githubEmojiIdMap, categorizedEmojiIds >>
                  ELSE IF GroupNotIterable(emojiLiteralToGithubEmojiIdsMap, key)
                  THEN /\ categorizedEmojiIds' =
                            PushGroup(categorizedEmojiIds, category, subcategory, githubEmojiIds)
                       /\ outcome' = Rejected(TypeError)
                       /\ pc' = "done"
                       /\ UNCHANGED githubEmojiIdMap
                  ELSE /\ categorizedEmojiIds' =
                            PushGroup(categorizedEmojiIds, category, subcategory, githubEmojiIds)
                       /\ githubEmojiIdMap' = DeleteIds(githubEmojiIdMap, githubEmojiIds)
                       /\ UNCHANGED << pc, outcome >>
          ELSE UNCHANGED << githubEmojiIdMap, categorizedEmojiIds, pc, outcome >>
  /\ UNCHANGED << inputs, fetch, emojiLiteralToGithubEmojiIdsMap,
                  githubSpecificEmojiUriToGithubEmojiIdsMap, categoryStack, lines >>

\* the records are exhausted: the coverage check
CoverageCheck ==
  /\ pc = "walk"
  /\ NextAt > Len(lines)
  /\ pos' = NextAt
  /\ IF HasUncategorized(githubEmojiIdMap)
     THEN /\ outcome' = Rejected(UncategorizedError)
          /\ pc' = "done"
     ELSE /\ pc' = "prune"
          /\ UNCHANGED outcome
  /\ UNCHANGED << inputs, fetch, maps, categorizedEmojiIds, categoryStack, lines >>

\* the empty subcategories and categories are deleted
Prune ==
  /\ pc = "prune"
  /\ categorizedEmojiIds' = PruneCategories(categorizedEmojiIds)
  /\ pc' = "custom"
  /\ UNCHANGED << inputs, fetch, maps, categoryStack, lines, pos, outcome >>

\* the synthetic category is added and the taxonomy returned
Return ==
  /\ pc = "custom"
  /\ categorizedEmojiIds' =
       AddGithubCustom(categorizedEmojiIds, githubSpecificEmojiUriToGithubEmojiIdsMap)
  /\ outcome' = Fulfilled(categorizedEmojiIds')
  /\ pc' = "done"
  /\ UNCHANGED << inputs, fetch, maps, categoryStack, lines, pos >>

Next ==
  \/ Call
  \/ \E f \in Resources : Callback(f)
  \/ \E f \in Resources : FetchFailed(f)
  \/ ResumeIds
  \/ BuildPartitions
  \/ CallIterator
  \/ ResumeText
  \/ WalkCategory
  \/ WalkSubcategory
  \/ WalkEmoji
  \/ CoverageCheck
  \/ Prune
  \/ Return

Spec == Init /\ [][Next]_vars

(***************************************************************************)
(* The same program served with taxonomy texts of one category, one        *)
(* subcategory and one emoji line over code points at and around the       *)
(* stripped ranges                                                         *)
(***************************************************************************)

MaxCodePoints == 3

\* "263A", "FE0F", "FE00", "200D", "FE10", the two surrogate halves of
\* U+1F600: "D83D", "DE00", and "0x263A"
CodePointTexts ==
  { << 48, 120, 50, 54, 51, 65 >>,
    << 68, 56, 51, 68 >>,
    << 68, 69, 48, 48 >> } \cup
  { << 50, 54, 51, 65 >>,
    << 70, 69, 48, 70 >>,
    << 70, 69, 48, 48 >>,
    << 50, 48, 48, 68 >>,
    << 70, 69, 49, 48 >> }

\* texts.join(" ")
RECURSIVE JoinTexts(_)
JoinTexts(ts) ==
  IF ts = << >> THEN << >>
  ELSE IF Len(ts) = 1 THEN ts[1]
  ELSE ts[1] \o << 32 >> \o JoinTexts(Tail(ts))

EmojiLines == { JoinTexts(ts) : ts \in SeqsUpTo(CodePointTexts, MaxCodePoints) }

\* "@@c", "@s", then the emoji line
KeyTexts == { JoinLines(<< << 64, 64, 99 >>, << 64, 115 >>, l >>) : l \in EmojiLines }

\* {}, {"a": "x/unicode/263a.png"} and {"a": "x/unicode/1f600.png"}
KeyIdSources ==
  { << >>,
    << [k |-> IdNames[1], v |-> << 120, 47, 117, 110, 105, 99, 111, 100, 101, 47, 50, 54, 51, 97, 46, 112, 110, 103 >>] >>,
    << [k |-> IdNames[1], v |-> << 120, 47, 117, 110, 105, 99, 111, 100, 101, 47, 49, 102, 54, 48, 48, 46, 112, 110, 103 >>] >> }

NextKeys ==
  \/ Call
  \/ \E f \in Resources : CallbackFrom(f, KeyIdSources, KeyTexts)
  \/ \E f \in Resources : FetchFailed(f)
  \/ ResumeIds
  \/ BuildPartitions
  \/ CallIterator
  \/ ResumeText
  \/ WalkCategory
  \/ WalkSubcategory
  \/ WalkEmoji
  \/ CoverageCheck
  \/ Prune
  \/ Return

SpecKeys == Init /\ [][NextKeys]_vars

(***************************************************************************)
(* The same program served with taxonomy texts that have two subcategory   *)
(* titles, markers without a title, blank lines and a line that is not a   *)
(* list of hexadecimal code points, and with identifier sources that have  *)
(* two platform-specific locators                                          *)
(***************************************************************************)

\* "@@c", "@@", "@s", "@t", "263A", "", "zz", and the code points of
\* "valueOf": "76 61 6C 75 65 4F 66"
RecordLineSet ==
  { << 55, 54, 32, 54, 49, 32, 54, 67, 32, 55, 53, 32, 54, 53, 32, 52, 70, 32, 54, 54 >>,
    << 64, 64, 99 >>,
    << 64, 64 >>,
    << 64, 115 >>,
    << 64, 116 >>,
    << 50, 54, 51, 65 >>,
    << >>,
    << 122, 122 >> }

RecordTexts == { JoinLines(ls) : ls \in SeqsUpTo(RecordLineSet, MaxLines) }

\* {}, {"a": "x/unicode/263a.png"}, {"a": "x/e/oc.png", "b": "x/e/7.png"},
\* {"a": "x/unicode/263a-fe0f.png"}, {"a": "x/e/valueOf.png"}
RecordIdSources ==
  { << >>,
    << [k |-> IdNames[1], v |-> << 120, 47, 117, 110, 105, 99, 111, 100, 101, 47, 50, 54, 51, 97, 45, 102, 101, 48, 102, 46, 112, 110, 103 >>] >>,
    << [k |-> IdNames[1], v |-> << 120, 47, 101, 47, 118, 97, 108, 117, 101, 79, 102, 46, 112, 110, 103 >>] >>,
    << [k |-> IdNames[1], v |-> << 120, 47, 117, 110, 105, 99, 111, 100, 101, 47, 50, 54, 51, 97, 46, 112, 110, 103 >>] >>,
    << [k |-> IdNames[1], v |-> << 120, 47, 101, 47, 111, 99, 46, 112, 110, 103 >>],
       [k |-> IdNames[3], v |-> << 120, 47, 101, 47, 55, 46, 112, 110, 103 >>] >> }

NextRecords ==
  \/ Call
  \/ \E f \in Resources : CallbackFrom(f, RecordIdSources, RecordTexts)
  \/ \E f \in Resources : FetchFailed(f)
  \/ ResumeIds
  \/ BuildPartitions
  \/ CallIterator
  \/ ResumeText
  \/ WalkCategory
  \/ WalkSubcategory
  \/ WalkEmoji
  \/ CoverageCheck
  \/ Prune
  \/ Return

SpecRecords == Init /\ [][NextRecords]_vars

(***************************************************************************)
(* Vocabulary of the properties                                            *)
(***************************************************************************)

\* the identifier-groups of a taxonomy, by place: category i, subcategory j,
\* k-th group of its list
Places(tax) ==
  UNION { UNION { { << i, j, k >> : k \in 1..Len(tax[i].v[j].v) }
                  : j \in 1..Len(tax[i].v) }
          : i \in 1..Len(tax) }

GroupAt(tax, p) == tax[p[1]].v[p[2]].v[p[3]]

\* every occurrence of an identifier in a taxonomy
Slots(tax) ==
  UNION { { << p, m >> : m \in 1..Len(GroupAt(tax, p)) } : p \in Places(tax) }

Occurrences(tax, id) ==
  Cardinality({ sl \in Slots(tax) : GroupAt(tax, sl[1])[sl[2]] = id })

Range(seq) == { seq[i] : i \in 1..Len(seq) }

\* the identifiers of the identifier source
InputIds == { idsBody[i].k : i \in 1..Len(idsBody) }

\* where the identifier source lists an identifier
UrlOf(id) == CHOOSE i \in 1..Len(idsBody) : idsBody[i].k = id

UnicodeIds == { idsBody[i].k : i \in { j \in 1..Len(idsBody) : IsUnicodeUrl(idsBody[j].v) } }

CustomIds == InputIds \ UnicodeIds

\* the literal of an identifier with a Unicode literal
LiteralOf(id) == DecodeUrl(idsBody[UrlOf(id)].v).s

\* the image locator (file stem) of a platform-specific identifier
LocatorOf(id) == FileStem(idsBody[UrlOf(id)].v)

\* the lines of the reference text that are Emoji records
EmojiLinesOf(ls) == { i \in 1..Len(ls) : LineType(ls[i]) = "emoji" /\ ~LineThrows(ls[i]) }

\* the normalized key of the Emoji record of line i
KeyOfLine(ls, i) == StripSelectors(LineValue(ls[i]))

\* the list of one (category, subcategory) bucket, empty when there is none
Bucket(tax, category, subcategory) ==
  IF ObjHas(tax, category) /\ ObjHas(ObjGet(tax, category), subcategory)
  THEN ObjGet(ObjGet(tax, category), subcategory)
  ELSE << >>

\* the (category, subcategory) pairs of a taxonomy
BucketKeys(tax) ==
  UNION { { << tax[i].k, tax[i].v[j].k >> : j \in 1..Len(tax[i].v) } : i \in 1..Len(tax) }

\* the last line before line n that is a record of the given type, 0 if none
LastRecord(ls, type, n) ==
  LET S == { i \in 1..(n - 1) : LineType(ls[i]) = type } IN
  IF S = {} THEN 0 ELSE CHOOSE i \in S : \A j \in S : j <= i

(***************************************************************************)
(* Properties                                                              *)
(***************************************************************************)

\* C1: no loss, no duplication.  Whenever a taxonomy is returned, every
\* identifier of the identifier source occurs exactly once across all the
\* identifier-groups of the taxonomy, and no other identifier occurs.
C1_NoLossNoDuplication ==
  outcome.state = "fulfilled" =>
    /\ \A id \in InputIds : Occurrences(outcome.value, id) = 1
    /\ \A sl \in Slots(outcome.value) : GroupAt(outcome.value, sl[1])[sl[2]] \in InputIds

\* C2: first reference occurrence wins.  An Emoji record whose normalized key
\* was the key of an earlier Emoji record, and is the literal of an
\* identifier, appends nothing: the key was removed from the literal index
\* at the first match.
C2_FirstOccurrenceWins ==
  [][ (/\ NextIs("emoji")
       /\ ~LineThrows(lines[NextAt])
       /\ \E i \in EmojiLinesOf(lines) :
            /\ i < NextAt
            /\ KeyOfLine(lines, i) = KeyOfLine(lines, NextAt)
            /\ \E id \in UnicodeIds : LiteralOf(id) = KeyOfLine(lines, i))
      => categorizedEmojiIds' = categorizedEmojiIds ]_vars

\* the identifiers with a Unicode literal that no Emoji record of the
\* reference text matches: none has the identifier's literal as its key
Unmatched(ls) ==
  LET keys == { KeyOfLine(ls, i) : i \in EmojiLinesOf(ls) } IN
  { id \in UnicodeIds : LiteralOf(id) \notin keys }

\* C3: coverage failure.  The coverage check lets the walk through only when
\* every identifier with a Unicode literal was matched by an Emoji record, and
\* no taxonomy is returned otherwise; the uncategorized-identifiers error is
\* raised only when some such identifier was matched by no Emoji record, and
\* it leaves no taxonomy; a run that walked the whole text with an unmatched
\* identifier ends in that error unless a record threw.
C3_CoverageFailure ==
  /\ (pc \in {"prune", "custom"} \/ outcome.state = "fulfilled") => Unmatched(lines) = {}
  /\ outcome.reason = UncategorizedError =>
       /\ Unmatched(lines) # {}
       /\ outcome.state = "rejected"
       /\ outcome.value = << >>
       /\ pc = "done"
  /\ (/\ pc = "done"
      /\ fetch["text"].state = "resolved"
      /\ ~(/\ outcome.state = "rejected"
           /\ outcome.reason \in {UncategorizedError, TypeError, RangeError}))
     => Unmatched(lines) = {}

\* reached: the walk ended and the coverage check raised the error
C3_Witness ==
  /\ pc = "done"
  /\ outcome = Rejected(UncategorizedError)
  /\ Unmatched(lines) # {}
  /\ EmojiLinesOf(lines) # {}

\* C4: matching uses the normalized key on both sides.  The uncategorized-
\* identifiers error is raised only when some identifier with a Unicode
\* literal has a normalized literal that is the normalized key of no Emoji
\* record; an identifier whose literal holds a variation selector or a
\* zero-width joiner is matched by the Emoji record with the same key.
C4_NormalizedOnBothSides ==
  outcome.reason = UncategorizedError =>
    \E id \in UnicodeIds :
      \A i \in EmojiLinesOf(lines) : KeyOfLine(lines, i) # StripSelectors(LiteralOf(id))

\* C5: placement by context.  A step that appends an identifier-group for an
\* Emoji record adds it at the end of the list of exactly one bucket: the one
\* of the title of the last Category record before it and of the title of the
\* last Subcategory record before it, which follows that Category record.
\* Every other bucket keeps its list.
C5_PlacementByContext ==
  [][ (NextIs("emoji") /\ categorizedEmojiIds' # categorizedEmojiIds) =>
      LET c == LastRecord(lines, "category", NextAt)
          sc == LastRecord(lines, "subcategory", NextAt)
      IN /\ c > 0
         /\ sc > c
         /\ BucketKeys(categorizedEmojiIds') = BucketKeys(categorizedEmojiIds)
         /\ \A b \in BucketKeys(categorizedEmojiIds') :
              IF b = << toTitleCase(LineValue(lines[c])), toTitleCase(LineValue(lines[sc])) >>
              THEN /\ Len(Bucket(categorizedEmojiIds', b[1], b[2])) =
                        Len(Bucket(categorizedEmojiIds, b[1], b[2])) + 1
                   /\ SubSeq(Bucket(categorizedEmojiIds', b[1], b[2]), 1,
                             Len(Bucket(categorizedEmojiIds, b[1], b[2]))) =
                        Bucket(categorizedEmojiIds, b[1], b[2])
              ELSE Bucket(categorizedEmojiIds', b[1], b[2]) =
                     Bucket(categorizedEmojiIds, b[1], b[2]) ]_vars

\* reached: a group was filed under the second of two categories
C5_Witness ==
  /\ pc = "walk"
  /\ Len(categoryStack) = 2
  /\ Len(Bucket(categorizedEmojiIds, categoryStack[1], categoryStack[2])) > 0
  /\ \E i \in 1..Len(categorizedEmojiIds) : categorizedEmojiIds[i].k # categoryStack[1]

\* C6: pruning.  A returned taxonomy has no category with an empty subcategory
\* mapping and no subcategory with an empty list, and it has the category
\* "GitHub Custom Emoji" exactly when the identifier source has a
\* platform-specific identifier.
C6_Pruning ==
  outcome.state = "fulfilled" =>
    /\ \A i \in 1..Len(outcome.value) :
         /\ Len(outcome.value[i].v) > 0
         /\ \A j \in 1..Len(outcome.value[i].v) : Len(outcome.value[i].v[j].v) > 0
    /\ \A p \in Places(outcome.value) : Len(GroupAt(outcome.value, p)) > 0
    /\ ObjHas(outcome.value, GithubCustomEmoji) <=> CustomIds # {}

\* reached: a taxonomy was returned from which a category of the reference
\* text was pruned while another one was kept
C6_Witness ==
  /\ outcome.state = "fulfilled"
  /\ \E i \in 1..Len(outcome.value) : outcome.value[i].k # GithubCustomEmoji
  /\ \E i \in 1..Len(lines) :
       /\ LineType(lines[i]) = "category"
       /\ ~ObjHas(outcome.value, toTitleCase(LineValue(lines[i])))

\* the identifiers that share the image locator of a platform-specific one
SameLocator(id) == { other \in CustomIds : LocatorOf(other) = LocatorOf(id) }

\* C7: platform-specific identifiers are isolated.  Such an identifier is in
\* no list of the literal index, is out of the identifier map once the
\* partitions are built (so the coverage check never sees it), and is in no
\* group of a Unicode category; in a returned taxonomy it occurs exactly once,
\* under "GitHub Custom Emoji", whose only subcategory is the empty title, in
\* the group of the identifiers that share its image locator.
C7_PlatformSpecificIsolated ==
  \A id \in CustomIds :
    /\ \A i \in 1..Len(emojiLiteralToGithubEmojiIdsMap) :
         id \notin Range(emojiLiteralToGithubEmojiIdsMap[i].v)
    /\ pc \notin {"start", "awaitIds", "partition"} => ~ObjHas(githubEmojiIdMap, id)
    /\ \A p \in Places(categorizedEmojiIds) :
         id \in Range(GroupAt(categorizedEmojiIds, p)) =>
           categorizedEmojiIds[p[1]].k = GithubCustomEmoji
    /\ outcome.reason = UncategorizedError => UnicodeIds # {}
    /\ outcome.state = "fulfilled" =>
         /\ ObjHas(outcome.value, GithubCustomEmoji)
         /\ ObjKeys(ObjGet(outcome.value, GithubCustomEmoji)) = << << >> >>
         /\ Occurrences(outcome.value, id) = 1
         /\ \E k \in 1..Len(Bucket(outcome.value, GithubCustomEmoji, << >>)) :
              Range(Bucket(outcome.value, GithubCustomEmoji, << >>)[k]) = SameLocator(id)

\* reached: a taxonomy with a Unicode category and the synthetic category
C7_Witness ==
  /\ outcome.state = "fulfilled"
  /\ CustomIds # {}
  /\ Len(outcome.value) >= 2

\* C8: multi-alias grouping.  Two identifiers that decode to the same literal
\* are in the same identifier-groups, during the walk and in the returned
\* taxonomy: a group that holds one of them holds the other.
C8_MultiAliasGrouping ==
  /\ \A p \in Places(categorizedEmojiIds) :
       \A x \in UnicodeIds \cap Range(GroupAt(categorizedEmojiIds, p)) :
         \A y \in UnicodeIds :
           LiteralOf(y) = LiteralOf(x) => y \in Range(GroupAt(categorizedEmojiIds, p))
  /\ \A p \in Places(outcome.value) :
       \A x \in UnicodeIds \cap Range(GroupAt(outcome.value, p)) :
         \A y \in UnicodeIds :
           LiteralOf(y) = LiteralOf(x) => y \in Range(GroupAt(outcome.value, p))

\* reached: a returned taxonomy with a group of two identifiers in a Unicode
\* category
C8_Witness ==
  /\ outcome.state = "fulfilled"
  /\ \E p \in Places(outcome.value) :
       /\ outcome.value[p[1]].k # GithubCustomEmoji
       /\ Len(GroupAt(outcome.value, p)) >= 2

\* the first line that is a record of the given type, 0 if none
FirstRecord(ls, type) ==
  LET S == { i \in 1..Len(ls) : LineType(ls[i]) = type } IN
  IF S = {} THEN 0 ELSE CHOOSE i \in S : \A j \in S : i <= j

\* the first Subcategory record when no Category record precedes it, else 0
FirstOrphan(ls) ==
  LET sc == FirstRecord(ls, "subcategory")
      c == FirstRecord(ls, "category")
  IN IF sc # 0 /\ (c = 0 \/ sc < c) THEN sc ELSE 0

\* C9: malformed input fails loudly.  When the reference text has a
\* Subcategory record before any Category record, no bucket is ever created,
\* the walk stops with a thrown error no later than at that record, and no
\* taxonomy is returned.
C9_SubcategoryBeforeCategory ==
  FirstOrphan(lines) # 0 =>
    /\ categorizedEmojiIds = << >>
    /\ outcome.state # "fulfilled"
    /\ outcome.value = << >>
    /\ pc \in {"walk", "done"}
    /\ pos > FirstOrphan(lines) => (pc = "done" /\ outcome.state = "rejected")

\* reached: the Subcategory record itself threw
C9_Witness ==
  /\ FirstOrphan(lines) # 0
  /\ pos = FirstOrphan(lines) + 1
  /\ pc = "done"
  /\ outcome = Rejected(TypeError)

\* where getCategorizeGithubEmojiIds awaits a fetch
AwaitOf(f) == IF f = "ids" THEN "awaitIds" ELSE "awaitText"

\* C10: fetch failure is fatal.  Each resource is requested at most once and
\* its fetch settles at most once; it is resolved exactly when the callback
\* came with no error and status code 200 and rejected on every other
\* callback; once a fetch is rejected the call goes nowhere but to rejection
\* with that fetch's reason: no taxonomy, no bucket, no further request.
C10_FetchFailureFatal ==
  \A f \in Resources :
    /\ fetch[f].requests <= 1
    /\ fetch[f].settles <= 1
    /\ fetch[f].settles = 1 <=> fetch[f].state \in {"resolved", "rejected"}
    /\ fetch[f].state = "resolved" <=>
         /\ fetch[f].settles = 1
         /\ fetch[f].response.error = ""
         /\ fetch[f].response.statusCode = 200
    /\ fetch[f].state = "rejected" =>
         /\ fetch[f].reason # NoReason
         /\ fetch[f].reason.name = fetch[f].response.error
         /\ fetch[f].reason.statusCode = fetch[f].response.statusCode
         /\ outcome.state # "fulfilled"
         /\ outcome.value = << >>
         /\ categorizedEmojiIds = << >>
         /\ pc \in {AwaitOf(f), "done"}
         /\ pc = "done" => outcome = Rejected(fetch[f].reason)
         /\ f = "ids" => fetch["text"].requests = 0

\* reached: the reference text fetch was rejected after the identifier source
\* had been fetched and partitioned, and the call rejected with its reason
C10_Witness ==
  /\ pc = "done"
  /\ fetch["ids"].state = "resolved"
  /\ Len(idsBody) > 0
  /\ fetch["text"].state = "rejected"
  /\ outcome = Rejected(fetch["text"].reason)

\* C11: normalizing is idempotent: stripping U+FE00..U+FE0F and U+200D from
\* the already stripped value of an Emoji record gives the stripped value
\* again, for every Emoji record of the taxonomy text being walked.
C11_NormalizeIdempotent ==
  \A i \in EmojiLinesOf(lines) :
    LET value == LineValue(lines[i])
    IN  StripSelectors(StripSelectors(value)) = StripSelectors(value)

\* an Emoji record with two stripped code points around a kept one was
\* normalized by the walk, and its key matched
C11_Witness ==
  /\ pc = "done"
  /\ outcome.state = "fulfilled"
  /\ \E i \in EmojiLinesOf(lines) :
       LET value == LineValue(lines[i])
       IN  /\ Len(value) = 3
           /\ Len(StripSelectors(value)) = 1
           /\ StripSelectors(value) # << value[1] >>
           /\ StripSelectors(value) # << value[3] >>
           /\ Places(outcome.value) # {}

\* C12: the context stack never holds more than two titles; a Category
\* record leaves it holding exactly the title-cased new category title; a
\* Subcategory record that arrives after a Category record leaves it
\* holding exactly the current category and the title-cased new
\* subcategory title, whatever subcategory was there before.
C12_ContextStack ==
  [][ /\ Len(categoryStack) <= 2
      /\ Len(categoryStack') <= 2
      /\ NextIs("category") =>
           categoryStack' = << toTitleCase(LineValue(lines[NextAt])) >>
      /\ (NextIs("subcategory") /\ categoryStack # << >>) =>
           categoryStack' =
             << categoryStack[1], toTitleCase(LineValue(lines[NextAt])) >> ]_vars

\* a second, different Subcategory record of the same category was walked:
\* the stack holds the category and the later subcategory, the earlier
\* subcategory has its bucket
C12_Witness ==
  /\ pc = "walk"
  /\ Len(categoryStack) = 2
  /\ pos > 1
  /\ LineType(lines[pos - 1]) = "subcategory"
  /\ \E pair \in BucketKeys(categorizedEmojiIds) :
       pair[1] = categoryStack[1] /\ pair[2] # categoryStack[2]

\* the identifiers in the order Object.entries enumerates the identifier source
EnumerationOrder == ObjKeys(getGithubEmojiIdMap(idsBody))

EnumRank(id) == CHOOSE i \in 1..Len(EnumerationOrder) : EnumerationOrder[i] = id

\* the place in the enumeration where an image locator is first seen
FirstSeen(locator) ==
  LET S == { EnumRank(id) : id \in { c \in CustomIds : LocatorOf(c) = locator } }
  IN  CHOOSE i \in S : \A j \in S : i <= j

\* C13: ordering of a returned taxonomy.  Within every identifier-group the
\* identifiers are in the enumeration order of the identifier source; two
\* groups of one bucket of a Unicode category are in the order of two Emoji
\* records that matched them; two groups of the synthetic category are in
\* the order in which their image locators were first seen in the
\* identifier source.
C13_Ordering ==
  outcome.state = "fulfilled" =>
    LET tax == outcome.value IN
    /\ \A p \in Places(tax) :
         LET g == GroupAt(tax, p) IN
         \A m \in 1..Len(g) : \A n \in 1..Len(g) :
           m < n => EnumRank(g[m]) < EnumRank(g[n])
    /\ \A p \in Places(tax) : \A q \in Places(tax) :
         (p[1] = q[1] /\ p[2] = q[2] /\ p[3] < q[3]) =>
           LET first == GroupAt(tax, p)[1]
               second == GroupAt(tax, q)[1]
           IN  IF tax[p[1]].k = GithubCustomEmoji
               THEN FirstSeen(LocatorOf(first)) < FirstSeen(LocatorOf(second))
               ELSE \E i \in EmojiLinesOf(lines) : \E j \in EmojiLinesOf(lines) :
                      /\ i < j
                      /\ KeyOfLine(lines, i) = LiteralOf(first)
                      /\ KeyOfLine(lines, j) = LiteralOf(second)

\* the first non-empty line at or after line from, 0 if there is none
FirstNonEmpty(ls, from) ==
  LET S == { i \in from..Len(ls) : ls[i] # << >> } IN
  IF S = {} THEN 0 ELSE CHOOSE i \in S : \A j \in S : i <= j

\* one step of the walk, seen from the lines of the text: the record that is
\* handled is the one of the first non-empty line not yet consumed; its type
\* follows from the marker the line starts with and its value is the rest
\* of the line; with no non-empty line left the walk ends without a record.
\* malformedThrows: a line without marker whose code point texts do not all
\* decode makes the generator throw a RangeError instead of yielding
RecordStep(malformedThrows) ==
  pc = "walk" =>
    LET n == FirstNonEmpty(lines, pos) IN
    IF n = 0
    THEN /\ pc' # "walk"
         /\ UNCHANGED << categorizedEmojiIds, categoryStack >>
         /\ outcome'.reason \notin {RangeError, TypeError}
    ELSE LET line == lines[n] IN
         /\ pos' = n + 1
         /\ IF Len(line) >= 2 /\ line[1] = 64 /\ line[2] = 64
            THEN categoryStack' = << toTitleCase(SubSeq(line, 3, Len(line))) >>
            ELSE IF line[1] = 64
            THEN /\ categoryStack' # << >>
                 /\ categoryStack'[Len(categoryStack')] =
                      toTitleCase(SubSeq(line, 2, Len(line)))
            ELSE /\ categoryStack' = categoryStack
                 /\ IF malformedThrows /\ ~DecodeOk(LineCodePointTexts(line))
                    THEN outcome' = Rejected(RangeError) /\ pc' = "done"
                    ELSE outcome'.reason # RangeError

\* C14: the parser yields exactly one record per non-empty line, in line
\* order, and none for a blank line; a line starting with "@@" yields a
\* category record whose value is the rest of the line, a line starting with
\* "@" but not "@@" a subcategory record, and any other non-empty line an
\* emoji record; the sequence ends with the lines.
C14_ParserRecordStream == [][RecordStep(FALSE)]_vars

\* C14, amended: as above, except that a non-empty line without marker
\* yields an emoji record only when every space-separated text of its first
\* tab-delimited field parses, in base 16, to a code point up to 10FFFF; on
\* any other such line the generator throws a RangeError and the call is
\* rejected with it.
C14_ParserRecordStreamOfHexLines == [][RecordStep(TRUE)]_vars

\* a category line, a blank line and a well-formed emoji line were consumed
\* in this order, and then a line that is not hexadecimal ended the call
C14_Witness ==
  /\ pc = "done"
  /\ outcome = Rejected(RangeError)
  /\ pos = Len(lines) + 1
  /\ \E i \in 1..Len(lines) : \E j \in 1..Len(lines) : \E k \in 1..Len(lines) :
       /\ i < j /\ j < k /\ k < Len(lines)
       /\ LineType(lines[i]) = "category"
       /\ lines[j] = << >>
       /\ k \in EmojiLinesOf(lines)

\* the steps after the loop that builds the partitions
AfterPartitions == {"callIterator", "awaitText", "walk", "prune", "custom"}

\* C15: fetches are joined before categorization.  Once the identifier
\* partitions are built, and during every later step up to the returned
\* taxonomy, both the fetch of the identifier source and the fetch of the
\* reference text have completed successfully.
C15_FetchesJoined ==
  (pc \in AfterPartitions \/ outcome.state = "fulfilled") =>
    \A f \in Resources : fetch[f].state = "resolved"

\* C15, amended: the partitions are built after the fetch of the identifier
\* source completed successfully and before the reference text is
\* requested; the walk of the records, pruning and the returned taxonomy
\* come only after both fetches completed successfully.
C15_WalkAfterBothFetches ==
  /\ ( \/ pc \in {"partition"} \cup AfterPartitions
       \/ maps # << << >>, << >>, << >> >>
       \/ outcome.state = "fulfilled" )
     => fetch["ids"].state = "resolved"
  /\ pc \in {"partition", "callIterator"} => fetch["text"].state = "idle"
  /\ ( \/ pc \in {"walk", "prune", "custom"}
       \/ lines # << >>
       \/ categorizedEmojiIds # << >>
       \/ categoryStack # << >>
       \/ outcome.state = "fulfilled" )
     => \A f \in Resources : fetch[f].state = "resolved"

\* both fetches completed, the partitions hold an identifier and the walk
\* has handled a record
C15_Witness ==
  /\ pc = "walk"
  /\ pos > 1
  /\ categoryStack # << >>
  /\ emojiLiteralToGithubEmojiIdsMap # << >>
  /\ \A f \in Resources : fetch[f].state = "resolved"

\* list a is the beginning of list b
IsPrefix(a, b) == Len(a) <= Len(b) /\ SubSeq(b, 1, Len(a)) = a

\* C16: appended groups are never discarded.  No step of the walk, of
\* pruning or of the return takes a group out of a bucket it was appended
\* to: the list of every bucket stays the beginning of that bucket's list
\* after the step, also when the record of the step has a title that was
\* seen before; so every appended group is in its bucket in the returned
\* taxonomy.
C16_AppendedGroupsKept ==
  [][ \A pair \in BucketKeys(categorizedEmojiIds) :
        IsPrefix(Bucket(categorizedEmojiIds, pair[1], pair[2]),
                 Bucket(categorizedEmojiIds', pair[1], pair[2])) ]_vars

\* the normalized key of the Emoji record of line i is not a key of the
\* literal index
KeyNotIndexed(i) ==
  /\ LineType(lines[i]) = "emoji"
  /\ ~LineThrows(lines[i])
  /\ \A n \in 1..Len(emojiLiteralToGithubEmojiIdsMap) :
       emojiLiteralToGithubEmojiIdsMap[n].k # KeyOfLine(lines, i)

\* the step leaves the taxonomy, the context stack, the literal index and
\* the not-yet-categorized identifiers as they were, and the walk goes on
NoEffect ==
  /\ UNCHANGED << categorizedEmojiIds, categoryStack,
                  emojiLiteralToGithubEmojiIdsMap, githubEmojiIdMap >>
  /\ pc' = "walk"
  /\ outcome' = Pending

====
